---------------------------- MODULE Spec2Model ----------------------------
(***************************************************************************)
(* A model of the ARTMIP standardizer: the correction registry and its     *)
(* five corrections (artmip_corrections.py) and the orchestrator that      *)
(* loads a candidate (ARTMIP) dataset and a reference (original input)     *)
(* dataset, determines and applies corrections and writes the result       *)
(* (ARTMIPStandardizer.py).                                                *)
(*                                                                         *)
(* A dataset is a record: the lon, lat and time coordinates (a sequence of *)
(* integer values and an attribute dictionary each), the tagged data       *)
(* variable as a time x lon matrix (the lat dimension carries no rule of   *)
(* the program and is collapsed), the set of data variable names, the      *)
(* dtypes of the three coordinates and the dataset-level attributes.       *)
(* A dictionary is a function whose DOMAIN is the set of keys present.     *)
(* A Python string that the program edits (a docstring) is a sequence of   *)
(* tokens in which every whitespace run is a token of its own.             *)
(* Coordinates are unique indexes (no duplicate values), as xarray needs   *)
(* for sel and reindex.                                                    *)
(* A time coordinate holds numbers as read (decode_times = False) and      *)
(* dates once xr.decode_cf has decoded it, which also moves its units and  *)
(* calendar from the attributes to the encoding.  A file specification is  *)
(* a record of its Python type and the files it stands for.                *)
(***************************************************************************)
EXTENDS Integers, Sequences, FiniteSets, TLC

VARIABLES
    all_corrections,              \* registry: name -> function, insertion order
    all_correction_descriptions,  \* registry: name -> docstring
    cfg,                          \* the constructor's arguments
    files,                        \* the input files on disk (external)
    pc,                           \* where the run is: "new", "constructed", ...
    artmip_input_xr,              \* self.artmip_input_xr
    original_input_xr,            \* self.original_input_xr
    output_xr,                    \* self.output_xr
    corrections,                  \* self.corrections: name -> function (the plan)
    correction_descriptions,      \* self.correction_descriptions: name -> docstring
    raised,                       \* the exception the last call raised, or ""
    disk,                         \* directories and files written (external)
    hist,                         \* history of the calls (for the properties)
    probe                         \* one correction tried alone on a pair

vars == <<all_corrections, all_correction_descriptions, cfg, files, pc,
          artmip_input_xr, original_input_xr, output_xr, corrections,
          correction_descriptions, raised, disk, hist, probe>>

-----------------------------------------------------------------------------
(* Values and helpers *)

None == [none |-> TRUE]

NoError == ""

EmptyDict == <<>>

Abs(x) == IF x < 0 THEN -x ELSE x

MinOf(s) == CHOOSE m \in {s[i] : i \in DOMAIN s} : \A i \in DOMAIN s : m <= s[i]

MaxOf(s) == CHOOSE m \in {s[i] : i \in DOMAIN s} : \A i \in DOMAIN s : m >= s[i]

Larger(a, b) == IF a >= b THEN a ELSE b

Range(s) == {s[i] : i \in DOMAIN s}

\* numpy.isclose(a, b) with its defaults rtol = 1e-5, atol = 1e-8, on
\* integer-valued a and b: |a - b| <= atol + rtol * |b|
IsClose(a, b) == Abs(a - b) * 100000 <= Abs(b)

\* numpy broadcasting of two one-dimensional arrays
Broadcastable(a, b) == Len(a) = Len(b) \/ Len(a) = 1 \/ Len(b) = 1

BroadcastAt(a, i) == IF Len(a) = 1 THEN a[1] ELSE a[i]

\* all(numpy.isclose(a, b)) / numpy.allclose(a, b) on broadcastable arrays
AllIsClose(a, b) ==
    \A i \in 1..Larger(Len(a), Len(b)) : IsClose(BroadcastAt(a, i), BroadcastAt(b, i))

\* numpy.roll(s, n): the element at index i moves to index i + n (cyclically)
Roll(s, n) == [j \in 1..Len(s) |-> s[((j - 1 - n) % Len(s)) + 1]]

\* numpy.nonzero(s == 0)[0][0]: the first index holding 0 (0-based), or -1
\* where the code's bare except catches the IndexError
IndexOfZero(s) ==
    IF \E i \in DOMAIN s : s[i] = 0
    THEN (CHOOSE i \in DOMAIN s : s[i] = 0 /\ \A k \in 1..(i - 1) : s[k] # 0) - 1
    ELSE -1

\* A remapping that takes 180 to -180 as well
ToSignedFrom180(lon) == [i \in DOMAIN lon |-> IF lon[i] >= 180 THEN lon[i] - 360 ELSE lon[i]]

\* xr.where(lon > 180, lon - 360, lon)
ToSigned(lon) == [i \in DOMAIN lon |-> IF lon[i] > 180 THEN lon[i] - 360 ELSE lon[i]]

\* xr.where(lon < 0, lon + 360, lon)
To0360(lon) == [i \in DOMAIN lon |-> IF lon[i] < 0 THEN lon[i] + 360 ELSE lon[i]]

\* bool(dataset): a Dataset is truthy when it has data variables
DatasetBool(ds) == ds.data_vars # {}

\* A time coordinate that xr.decode_cf has decoded holds dates (cftime
\* objects, numpy dtype object) instead of numbers
IsDecoded(ds) == ds.dtypes["time"] = "object"

\* Labels of the two time indexes can only be equal when both are numbers
\* or both are dates
SameTimeKind(a, b) == IsDecoded(a) = IsDecoded(b)

\* The result of an apply phase: the dataset returned, or the exception
Returned(ds) == [raised |-> NoError, ds |-> ds]

Raises(e) == [raised |-> e, ds |-> None]

-----------------------------------------------------------------------------
(* The corrections: artmip_corrections.py.  A determine phase returns       *)
(* "True" or "False", or the name of the error it raises.                   *)

\* `input_xr.lon.min() < 0 and input_xr.lon.max() > 0` decides "signed"
InputIs0360(input_xr) ==
    ~(MinOf(input_xr.lon) < 0 /\ MaxOf(input_xr.lon) > 0)

\* `artmip_xr.lon.min() < 0 and artmip_xr.max() > 0`: the second operand is a
\* Dataset (the maximum of every data variable, compared with 0), whose truth
\* value is whether it has data variables
ArtmipIs0360(artmip_xr) ==
    ~(MinOf(artmip_xr.lon) < 0 /\ DatasetBool(artmip_xr))

\* Line 164 reads input_xr.lon and artmip_xr.lon before anything else: an
\* AttributeError on None
swap_lon_convention_determine(artmip_xr, input_xr) ==
    IF artmip_xr = None \/ input_xr = None THEN "AttributeError"
    ELSE IF ~Broadcastable(input_xr.lon, artmip_xr.lon) THEN "ValueError"
    ELSE IF AllIsClose(input_xr.lon, artmip_xr.lon) THEN "False"
    ELSE IF InputIs0360(input_xr) # ArtmipIs0360(artmip_xr) THEN "True"
    ELSE "ConventionMismatch"

\* The remapped coordinate is computed by arithmetic and xr.where, which drop
\* the attributes of the coordinate; the data variables are not touched.
\* input_xr is never read.
swap_lon_convention_apply(artmip_xr, input_xr) ==
    IF artmip_xr = None THEN Raises("AttributeError")
    ELSE
    Returned([artmip_xr EXCEPT
        !.lon = IF ArtmipIs0360(artmip_xr) THEN ToSigned(@) ELSE To0360(@),
        !.lon_attrs = EmptyDict])

rotate_longitudes_nroll(artmip_xr, input_xr) ==
    IndexOfZero(input_xr.lon) - IndexOfZero(artmip_xr.lon)

\* The rolled longitudes after the convention flip tried when rolling alone
\* does not reproduce the reference
FlippedRoll(rolled_lon) ==
    IF MinOf(rolled_lon) < 0 THEN To0360(rolled_lon) ELSE ToSigned(rolled_lon)

\* Line 226 reads both longitudes outside any try: an AttributeError on None
rotate_longitudes_determine(artmip_xr, input_xr) ==
    IF artmip_xr = None \/ input_xr = None THEN "AttributeError"
    ELSE IF ~Broadcastable(input_xr.lon, artmip_xr.lon) THEN "ValueError"
    ELSE IF AllIsClose(input_xr.lon, artmip_xr.lon) THEN "False"
    ELSE IF IndexOfZero(artmip_xr.lon) < 0 THEN "ReferenceIndexNotFound"
    ELSE IF IndexOfZero(input_xr.lon) < 0 THEN "ReferenceIndexNotFound"
    ELSE IF rotate_longitudes_nroll(artmip_xr, input_xr) = 0 THEN "False"
    ELSE LET rolled_lon == Roll(artmip_xr.lon, rotate_longitudes_nroll(artmip_xr, input_xr))
             fixed_lon  == IF AllIsClose(input_xr.lon, rolled_lon)
                           THEN rolled_lon ELSE FlippedRoll(rolled_lon)
         IN  IF AllIsClose(input_xr.lon, fixed_lon) THEN "True"
             ELSE "UnresolvableLongitudeMismatch"

\* The look-up of longitude 0 under the bare `except:` of the apply phase:
\* whatever it raises (no 0 among the longitudes, or no dataset at all)
\* becomes the RuntimeError
NoZeroIn(ds) == IF ds = None THEN TRUE ELSE IndexOfZero(ds.lon) < 0

\* A rotation of the longitude coordinate that leaves the data where it was
rotate_coordinate_only(artmip_xr, input_xr) ==
    IF NoZeroIn(artmip_xr) THEN Raises("ReferenceIndexNotFound")
    ELSE IF NoZeroIn(input_xr) THEN Raises("ReferenceIndexNotFound")
    ELSE Returned([artmip_xr EXCEPT
             !.lon = Roll(@, IndexOfZero(input_xr.lon) - IndexOfZero(artmip_xr.lon))])

rotate_longitudes_apply(artmip_xr, input_xr) ==
    IF NoZeroIn(artmip_xr) THEN Raises("ReferenceIndexNotFound")
    ELSE IF NoZeroIn(input_xr) THEN Raises("ReferenceIndexNotFound")
    ELSE LET nroll == rotate_longitudes_nroll(artmip_xr, input_xr)
         IN  Returned([artmip_xr EXCEPT
                 !.lon = Roll(@, nroll),
                 !.data = [t \in DOMAIN @ |-> Roll(@[t], nroll)]])

\* A selection that never fails
SelAlwaysSucceeds(artmip_xr, input_xr) == TRUE

\* input_xr.sel(time = artmip_xr.time) succeeds when every candidate time is a
\* label of the reference's time index
SelSucceeds(artmip_xr, input_xr) ==
    /\ SameTimeKind(artmip_xr, input_xr)
    /\ Range(artmip_xr.time) \subseteq Range(input_xr.time)

\* len(input_xr.time) comes first: an AttributeError on None
insert_missing_times_determine(artmip_xr, input_xr) ==
    IF artmip_xr = None \/ input_xr = None THEN "AttributeError"
    ELSE IF Len(input_xr.time) = Len(artmip_xr.time) THEN "False"
    ELSE IF SelSucceeds(artmip_xr, input_xr) THEN "True"
    ELSE "TimeDomainMismatch"

\* The value reindex puts at a timestep the candidate lacks
ReindexFill == 0

PositionOf(s, v) == CHOOSE i \in DOMAIN s : s[i] = v

\* The candidate has the k-th time label of the reference
HasLabel(artmip_xr, input_xr, k) ==
    /\ SameTimeKind(artmip_xr, input_xr)
    /\ input_xr.time[k] \in Range(artmip_xr.time)

\* A reindex that marks the timesteps the candidate lacks as missing (-1
\* standing for the variable's fill value) instead of filling them with 0
insert_missing_times_as_missing(artmip_xr, input_xr) ==
    IF artmip_xr = None \/ input_xr = None THEN Raises("AttributeError")
    ELSE
    Returned([artmip_xr EXCEPT
        !.time = input_xr.time,
        !.dtypes["time"] = input_xr.dtypes["time"],
        !.data = [k \in DOMAIN input_xr.time |->
                     IF HasLabel(artmip_xr, input_xr, k)
                     THEN artmip_xr.data[PositionOf(artmip_xr.time, input_xr.time[k])]
                     ELSE [l \in DOMAIN artmip_xr.lon |-> -1]]])

\* artmip_xr.reindex(time = input_xr.time, fill_value = 0): the new time index
\* is built from the reference's labels (values and dtype); a row of the
\* candidate where it has the label, the fill value elsewhere; the
\* candidate's own time attributes and encoding are kept
insert_missing_times_apply(artmip_xr, input_xr) ==
    IF artmip_xr = None \/ input_xr = None THEN Raises("AttributeError")
    ELSE
    Returned([artmip_xr EXCEPT
        !.time = input_xr.time,
        !.dtypes["time"] = input_xr.dtypes["time"],
        !.data = [k \in DOMAIN input_xr.time |->
                     IF HasLabel(artmip_xr, input_xr, k)
                     THEN artmip_xr.data[PositionOf(artmip_xr.time, input_xr.time[k])]
                     ELSE [l \in DOMAIN artmip_xr.lon |-> ReindexFill]]])

time_check_atts == <<"long_name", "units", "calendar", "standard_name">>

\* input_xr[c].attrs[att] != artmip_xr[c].attrs[att], a KeyError (an attribute
\* missing on either side) counting as a difference
AttDiffers(input_attrs, artmip_attrs, att) ==
    \/ att \notin DOMAIN input_attrs
    \/ att \notin DOMAIN artmip_attrs
    \/ input_attrs[att] # artmip_attrs[att]

\* np.allclose sits in a try that passes over a ValueError only: None is an
\* AttributeError, and a time coordinate holding dates a TypeError (numpy
\* cannot test objects for finiteness), whatever the lengths
override_time_values_and_metadata_determine(artmip_xr, input_xr) ==
    IF artmip_xr = None \/ input_xr = None THEN "AttributeError"
    ELSE IF IsDecoded(artmip_xr) \/ IsDecoded(input_xr) THEN "TypeError"
    ELSE
    LET values_differ ==
            /\ Broadcastable(input_xr.time, artmip_xr.time)  \* else ValueError, passed over
            /\ ~AllIsClose(input_xr.time, artmip_xr.time)
        atts_differ ==
            \E i \in DOMAIN time_check_atts :
                AttDiffers(input_xr.time_attrs, artmip_xr.time_attrs, time_check_atts[i])
    IN  IF values_differ \/ atts_differ THEN "True" ELSE "False"

\* An override of the time values that leaves the attributes alone
override_time_values_only(artmip_xr, input_xr) ==
    IF artmip_xr = None \/ input_xr = None THEN Raises("AttributeError")
    ELSE IF Len(input_xr.time) # Len(artmip_xr.time) THEN Raises("ValueError")
    ELSE Returned([artmip_xr EXCEPT
             !.time = input_xr.time,
             !.dtypes["time"] = input_xr.dtypes["time"]])

\* artmip_xr.assign_coords(time = input_xr.time): the coordinate variable
\* (values, dtype, attributes and encoding) is replaced; a length other than
\* the time dimension's is a ValueError (conflicting sizes)
override_time_values_and_metadata_apply(artmip_xr, input_xr) ==
    IF artmip_xr = None \/ input_xr = None THEN Raises("AttributeError")
    ELSE IF Len(input_xr.time) # Len(artmip_xr.time) THEN Raises("ValueError")
    ELSE Returned([artmip_xr EXCEPT
             !.time = input_xr.time,
             !.dtypes["time"] = input_xr.dtypes["time"],
             !.time_attrs = input_xr.time_attrs,
             !.time_encoding = input_xr.time_encoding])

check_coords == <<"lat", "lon">>

check_atts == <<"long_name", "units", "standard_name">>

CoordAttrs(ds, coord) == IF coord = "lat" THEN ds.lat_attrs ELSE ds.lon_attrs

\* The pairs (att, coord) in the order the two loops of the determine phase
\* visit them: attribute outermost
CheckedPairs ==
    [i \in 1..(Len(check_atts) * Len(check_coords)) |->
        [att |-> check_atts[((i - 1) \div Len(check_coords)) + 1],
         coord |-> check_coords[((i - 1) % Len(check_coords)) + 1]]]

\* `input_xr[coord].attrs[att] != artmip_xr[coord].attrs[att]` under
\* `except KeyError`.  The left operand is evaluated first: subscripting a
\* None input_xr is a TypeError; an attribute the reference lacks is the
\* KeyError, caught before artmip_xr is read; a None artmip_xr is a TypeError
\* at the first attribute the reference has.
override_coordinate_metadata_determine(artmip_xr, input_xr) ==
    IF input_xr = None THEN "TypeError"
    ELSE IF artmip_xr = None
    THEN (IF \E i \in DOMAIN CheckedPairs :
                CheckedPairs[i].att \in DOMAIN CoordAttrs(input_xr, CheckedPairs[i].coord)
          THEN "TypeError" ELSE "True")
    ELSE IF \E i \in DOMAIN CheckedPairs :
           AttDiffers(CoordAttrs(input_xr, CheckedPairs[i].coord),
                      CoordAttrs(artmip_xr, CheckedPairs[i].coord), CheckedPairs[i].att)
    THEN "True" ELSE "False"

\* d with d[k] = v set for every k -> v of upd
DictUpdate(d, upd) ==
    [k \in DOMAIN d \cup DOMAIN upd |-> IF k \in DOMAIN upd THEN upd[k] ELSE d[k]]

CheckedAtts(attrs) == [k \in Range(check_atts) |-> attrs[k]]

\* output_xr[coord].attrs[att] = input_xr[coord].attrs[att] on a copy: a
\* KeyError when the reference lacks one of the attributes.  artmip_xr.copy()
\* is an AttributeError on None, input_xr[coord] a TypeError on None.
override_coordinate_metadata_apply(artmip_xr, input_xr) ==
    IF artmip_xr = None THEN Raises("AttributeError")
    ELSE IF input_xr = None THEN Raises("TypeError")
    ELSE IF \E c \in DOMAIN check_coords : \E a \in DOMAIN check_atts :
           check_atts[a] \notin DOMAIN CoordAttrs(input_xr, check_coords[c])
    THEN Raises("KeyError")
    ELSE Returned([artmip_xr EXCEPT
             !.lat_attrs = DictUpdate(@, CheckedAtts(input_xr.lat_attrs)),
             !.lon_attrs = DictUpdate(@, CheckedAtts(input_xr.lon_attrs))])

\* correction_func(artmip_xr, input_xr, determine_only = True)
Determine(name, artmip_xr, input_xr) ==
    CASE name = "swap_lon_convention" ->
             swap_lon_convention_determine(artmip_xr, input_xr)
      [] name = "rotate_longitudes" ->
             rotate_longitudes_determine(artmip_xr, input_xr)
      [] name = "insert_missing_times" ->
             insert_missing_times_determine(artmip_xr, input_xr)
      [] name = "override_time_values_and_metadata" ->
             override_time_values_and_metadata_determine(artmip_xr, input_xr)
      [] name = "override_coordinate_metadata" ->
             override_coordinate_metadata_determine(artmip_xr, input_xr)

\* correction_func(artmip_xr, input_xr, apply_only = True)
Apply(name, artmip_xr, input_xr) ==
    CASE name = "swap_lon_convention" ->
             swap_lon_convention_apply(artmip_xr, input_xr)
      [] name = "rotate_longitudes" ->
             rotate_longitudes_apply(artmip_xr, input_xr)
      [] name = "insert_missing_times" ->
             insert_missing_times_apply(artmip_xr, input_xr)
      [] name = "override_time_values_and_metadata" ->
             override_time_values_and_metadata_apply(artmip_xr, input_xr)
      [] name = "override_coordinate_metadata" ->
             override_coordinate_metadata_apply(artmip_xr, input_xr)

-----------------------------------------------------------------------------
(* Ordered dictionaries (collections.OrderedDict): a sequence of            *)
(* [key, value] entries in insertion order.                                 *)

ODKeys(od) == [i \in DOMAIN od |-> od[i].key]

ODHas(od, k) == \E i \in DOMAIN od : od[i].key = k

ODGet(od, k) == od[CHOOSE i \in DOMAIN od : od[i].key = k].value

\* od[k] = v: a new key goes last, a key already there keeps its place
ODSet(od, k, v) ==
    IF ODHas(od, k)
    THEN [i \in DOMAIN od |-> IF od[i].key = k THEN [key |-> k, value |-> v] ELSE od[i]]
    ELSE Append(od, [key |-> k, value |-> v])

-----------------------------------------------------------------------------
(* The registry: artmip_corrections.correction.  A function is described by *)
(* its name, the names of its parameters and its __doc__: [is_none, text],  *)
(* is_none when the function has no docstring.                              *)

required_parameters == <<"artmip_xr", "input_xr", "determine_only", "apply_only">>

NoDoc == [is_none |-> TRUE, text |-> <<>>]

Doc(text) == [is_none |-> FALSE, text |-> text]

Func(name, parameters, doc) == [name |-> name, parameters |-> parameters, doc |-> doc]

\* The checks of correction(): the four asserts on the signature, then
\* `assert len(func.__doc__) > 0`, where len(None) is a TypeError
CorrectionCheck(func) ==
    IF \E i \in DOMAIN required_parameters : required_parameters[i] \notin func.parameters
    THEN "AssertionError"
    ELSE IF func.doc.is_none THEN "TypeError"
    ELSE IF ~(Len(func.doc.text) > 0) THEN "AssertionError"
    ELSE NoError

\* correction(func, add_to_list = True) on the two registry dictionaries
Registered(reg, func) ==
    IF CorrectionCheck(func) # NoError
    THEN [raised |-> CorrectionCheck(func), all |-> reg.all, descriptions |-> reg.descriptions]
    ELSE [raised |-> NoError,
          all |-> ODSet(reg.all, func.name, func),
          descriptions |-> ODSet(reg.descriptions, func.name, func.doc)]

AllParameters == Range(required_parameters)

\* The five corrections of artmip_corrections.py, in source order
BuiltinCorrections ==
    << Func("swap_lon_convention", AllParameters,
            Doc(<<" ", "Swap the longitude convention from -180-180 or 0-360.", " ">>)),
       Func("rotate_longitudes", AllParameters,
            Doc(<<" ", "Rotate through the longitude dimension to match the input dataset.", " ">>)),
       Func("insert_missing_times", AllParameters,
            Doc(<<" ", "Insert missing timesteps (fills with _FillValue).", " ">>)),
       Func("override_time_values_and_metadata", AllParameters,
            Doc(<<" ", "Override the time values and metadata with that from the input.", " ">>)),
       Func("override_coordinate_metadata", AllParameters,
            Doc(<<" ", "Override the lat/lon coordinate metadata with that from the input.", " ">>)) >>

RECURSIVE RegisterAll(_, _, _)
RegisterAll(reg, funcs, i) ==
    IF i > Len(funcs) THEN reg
    ELSE RegisterAll(Registered(reg, funcs[i]), funcs, i + 1)

EmptyRegistry == [raised |-> NoError, all |-> <<>>, descriptions |-> <<>>]

\* The registry once the module is imported
ImportedRegistry == RegisterAll(EmptyRegistry, BuiltinCorrections, 1)

-----------------------------------------------------------------------------
(* Strings as token sequences *)

IsSpace(tok) == tok = " "

RECURSIVE LStrip(_)
LStrip(s) == IF s # <<>> /\ IsSpace(Head(s)) THEN LStrip(Tail(s)) ELSE s

RECURSIVE RStrip(_)
RStrip(s) ==
    IF s # <<>> /\ IsSpace(s[Len(s)]) THEN RStrip(SubSeq(s, 1, Len(s) - 1)) ELSE s

\* str.lstrip() in the place of str.strip()
StripLeft(s) == LStrip(s)

\* str.strip()
Strip(s) == RStrip(LStrip(s))

\* sep.join(parts)
RECURSIVE Join(_, _)
Join(sep, parts) ==
    IF parts = <<>> THEN <<>>
    ELSE IF Len(parts) = 1 THEN parts[1]
    ELSE parts[1] \o <<sep>> \o Join(sep, Tail(parts))

-----------------------------------------------------------------------------
(* The orchestrator: ARTMIPStandardizer.py.  A method is an operator from   *)
(* the object's state before the call to its state after it; `raised` is    *)
(* the exception the call ended with.  self bundles the fields of the       *)
(* object, the disk and the history of the call.                            *)

Self ==
    [artmip_input_xr |-> artmip_input_xr,
     original_input_xr |-> original_input_xr,
     output_xr |-> output_xr,
     corrections |-> corrections,
     correction_descriptions |-> correction_descriptions,
     raised |-> raised,
     disk |-> disk,
     hist |-> hist]

\* The state a call from outside starts in: nothing raised yet, and no method
\* entered yet
Entering(self) == [self EXCEPT !.raised = NoError, !.hist.steps = <<>>]

Called(self, method) == [self EXCEPT !.hist.steps = Append(@, method)]

CoordNames == {"time", "lat", "lon"}

AttrsOf(ds, var) ==
    CASE var = "time" -> ds.time_attrs
      [] var = "lat" -> ds.lat_attrs
      [] var = "lon" -> ds.lon_attrs

\* dataset[var].attrs[att] = val for every var -> att -> val of the dictionary
WithMetadata(ds, metadata_dict) ==
    LET upd(var) == IF var \in DOMAIN metadata_dict
                    THEN DictUpdate(AttrsOf(ds, var), metadata_dict[var])
                    ELSE AttrsOf(ds, var)
    IN  [ds EXCEPT !.time_attrs = upd("time"),
                   !.lat_attrs = upd("lat"),
                   !.lon_attrs = upd("lon")]

\* The time units the datasets use
known_units == {"days since 0001-01-01 00:00:00", "days since 0201-01-01 00:00:00"}

\* The year the time units count from
OriginYear(units) == IF units = "days since 0201-01-01 00:00:00" THEN 201 ELSE 1

\* xr.decode_cf and "time.year" on a calendar of 365 days
YearOf(units, t) == OriginYear(units) + (t \div 365)

\* The date t days after the origin of the units
DateOf(units, t) == [year |-> YearOf(units, t), dayofyr |-> (t % 365) + 1]

\* xr.decode_cf(ds): a numeric time coordinate that carries time units
\* becomes dates, and its units and calendar move from the attributes to the
\* encoding (with the dtype it had); without units it is left as it is
decode_cf(ds) ==
    IF /\ ~IsDecoded(ds)
       /\ "units" \in DOMAIN ds.time_attrs
       /\ ds.time_attrs["units"] \in known_units
    THEN [ds EXCEPT
             !.time = [i \in DOMAIN @ |-> DateOf(ds.time_attrs["units"], @[i])],
             !.dtypes["time"] = "object",
             !.time_attrs = [k \in DOMAIN @ \ {"units", "calendar"} |-> @[k]],
             !.time_encoding =
                 [k \in (DOMAIN ds.time_attrs \cap {"units", "calendar"}) \cup {"dtype"} |->
                     IF k = "dtype" THEN ds.dtypes["time"] ELSE ds.time_attrs[k]]]
    ELSE ds

\* sorted(glob.glob(pattern)): the files the pattern matches, by path
SortedByPath(found) == SortSeq(found, LAMBDA a, b : a.path < b.path)

RECURSIVE Flatten(_)
Flatten(seqs) == IF seqs = <<>> THEN <<>> ELSE Head(seqs) \o Flatten(Tail(seqs))

\* Concatenation along time (xr.concat(..., dim = 'time'), the nested
\* combine of open_mfdataset): the timesteps of every dataset in the order
\* given; the rest, the attributes and encoding of the time coordinate
\* included, is the first dataset's
Concat(datasets) ==
    [datasets[1] EXCEPT
        !.time = Flatten([i \in DOMAIN datasets |-> datasets[i].time]),
        !.data = Flatten([i \in DOMAIN datasets |-> datasets[i].data])]

\* xr.open_mfdataset(spec, decode_times = False, combine = 'nested',
\* concat_dim = 'time'): a string is a pattern (its matches, sorted), anything
\* else is iterated as the list of paths (a TypeError when it is no list);
\* no file is an OSError
open_mfdataset(spec) ==
    IF spec.kind \notin {"str", "list"} THEN Raises("TypeError")
    ELSE LET paths == IF spec.kind = "str" THEN SortedByPath(spec.found) ELSE spec.found
         IN  IF paths = <<>> THEN Raises("NoInputFiles")
             ELSE Returned(Concat([i \in DOMAIN paths |-> paths[i].ds]))

\* load_artmip_input_files.  By default open_mfdataset, then the overrides of
\* artmip_metadata_dict, whose .items() is an AttributeError on None (the
\* dataset is assigned by then).  With decode_files_separately every file is
\* opened, overridden and decoded on its own, and the list is concatenated:
\* a specification that is neither a string nor a list is a RuntimeError, an
\* empty list a ValueError of xr.concat, and the dataset is assigned last.
load_artmip_input_files(self0) ==
    LET self == Called(self0, "load_artmip_input_files")
        opened == open_mfdataset(files.artmip)
        file_list == IF files.artmip.kind = "str"
                     THEN SortedByPath(files.artmip.found) ELSE files.artmip.found
    IN  IF ~cfg.decode_files_separately
        THEN (IF opened.raised # NoError THEN [self EXCEPT !.raised = opened.raised]
              ELSE IF cfg.artmip_metadata_dict = None
              THEN [self EXCEPT !.artmip_input_xr = opened.ds,
                                !.raised = "AttributeError"]
              ELSE [self EXCEPT !.artmip_input_xr =
                                    WithMetadata(opened.ds, cfg.artmip_metadata_dict)])
        ELSE IF files.artmip.kind \notin {"str", "list"}
        THEN [self EXCEPT !.raised = "RuntimeError"]
        ELSE IF file_list = <<>> THEN [self EXCEPT !.raised = "ValueError"]
        ELSE IF cfg.artmip_metadata_dict = None
        THEN [self EXCEPT !.raised = "AttributeError"]
        ELSE [self EXCEPT !.artmip_input_xr =
                 Concat([i \in DOMAIN file_list |->
                     decode_cf(WithMetadata(file_list[i].ds, cfg.artmip_metadata_dict))])]

\* The files of a specification exist, and the dataset they hold together
HasFiles(spec) == open_mfdataset(spec).raised = NoError

AsStored(spec) == open_mfdataset(spec).ds

load_original_input_files(self0) ==
    LET self == Called(self0, "load_original_input_files")
        opened == open_mfdataset(files.original)
    IN  IF opened.raised # NoError THEN [self EXCEPT !.raised = opened.raised]
        ELSE IF cfg.metadata_dict = None
        THEN [self EXCEPT !.original_input_xr = opened.ds,
                          !.raised = "AttributeError"]
        ELSE [self EXCEPT !.original_input_xr =
                              WithMetadata(opened.ds, cfg.metadata_dict)]

\* __add_correction_to_list__: the validity check, then the two dictionaries
add_correction_to_list(self, func_name, func, func_desc) ==
    IF CorrectionCheck(func) # NoError
    THEN [self EXCEPT !.raised = CorrectionCheck(func)]
    ELSE [self EXCEPT
             !.corrections = ODSet(@, func_name, func),
             !.correction_descriptions = ODSet(@, func_name, func_desc)]

IsError(result) == result \notin {"True", "False"}

\* A determine_corrections that keeps every correction it asked
KeepEvery(result) == TRUE

\* Whether determine_corrections keeps a correction: `... == True`
Needed(result) == result = "True"

\* The loop of determine_corrections from the i-th entry of the registry on;
\* an exception leaves the entries added so far in place
RECURSIVE determine_loop(_, _)
determine_loop(self, i) ==
    IF i > Len(all_corrections) THEN self
    ELSE LET func_name == all_corrections[i].key
             func == all_corrections[i].value
             result == Determine(func_name, self.artmip_input_xr, self.original_input_xr)
             logged == [self EXCEPT !.hist.determine_log =
                           Append(@, [name |-> func_name, result |-> result])]
         IN  IF IsError(result) THEN [logged EXCEPT !.raised = result]
             ELSE IF Needed(result)
             THEN LET added == add_correction_to_list(logged, func_name, func,
                                   ODGet(all_correction_descriptions, func_name))
                  IN  IF added.raised # NoError THEN added
                      ELSE determine_loop(added, i + 1)
             ELSE determine_loop(logged, i + 1)

determine_corrections(self0) ==
    LET self == Called(self0, "determine_corrections")
    IN  determine_loop([self EXCEPT !.hist.determine_log = <<>>], 1)

\* An apply_corrections that hands every correction the loaded candidate
SameInput(current_xr, output) == current_xr

\* The dataset a correction of the plan is given: what the one before it
\* returned, the loaded candidate for the first
NextInput(current_xr, output) == output

\* The loop of apply_corrections from the i-th entry of the plan on:
\* [raised, output_xr (None while the loop has not run), log]
RECURSIVE apply_loop(_, _, _, _)
apply_loop(self, i, current_xr, acc) ==
    IF i > Len(self.corrections) THEN acc
    ELSE LET name == self.corrections[i].key
             out == Apply(name, current_xr, self.original_input_xr)
             log == Append(acc.log, [name |-> name, artmip_xr |-> current_xr,
                                     input_xr |-> self.original_input_xr,
                                     raised |-> out.raised, returned |-> out.ds])
         IN  IF out.raised # NoError
             THEN [raised |-> out.raised, bound |-> acc.bound, output_xr |-> acc.output_xr,
                   log |-> log]
             ELSE apply_loop(self, i + 1, NextInput(current_xr, out.ds),
                             [raised |-> NoError, bound |-> TRUE, output_xr |-> out.ds,
                              log |-> log])

\* apply_corrections: `self.output_xr = output_xr` after the loop reads a local
\* that only the loop's body binds (UnboundLocalError on an empty plan)
apply_corrections(self0) ==
    LET self == Called(self0, "apply_corrections")
        done == apply_loop(self, 1, self.artmip_input_xr,
                    [raised |-> NoError, bound |-> FALSE, output_xr |-> None, log |-> <<>>])
        logged == [self EXCEPT !.hist.apply_log = done.log]
    IN  IF done.raised # NoError THEN [logged EXCEPT !.raised = done.raised]
        ELSE IF ~done.bound THEN [logged EXCEPT !.raised = "UnboundLocalError"]
        ELSE [logged EXCEPT !.output_xr = done.output_xr,
                            !.hist.apply_completed = TRUE]

-----------------------------------------------------------------------------
(* write_dataset *)

\* `if self.output_xr is None: raise RuntimeError(...)`
write_not_ready(self) == self.output_xr = None

\* "; ".join([desc.strip() for f, desc in self.correction_descriptions.items()])
quality_control_operations(descriptions) ==
    Join("; ", [i \in DOMAIN descriptions |-> Strip(descriptions[i].value.text)])

VariablesOf(ds) == CoordNames \cup ds.data_vars

\* The options every variable is given
base_encoding == [k \in {"zlib", "complevel", "_FillValue"} |->
                     CASE k = "zlib" -> TRUE
                       [] k = "complevel" -> 4
                       [] k = "_FillValue" -> None]

\* encoding_dict once every statement that fills it has run
encoding_dict(out, original) ==
    [var \in VariablesOf(out) \cup {"ar_binary_tag"} |->
        IF var = "ar_binary_tag" THEN [k \in {"dtype"} |-> "int8"]
        ELSE IF var = "time"
        THEN DictUpdate(base_encoding,
                 [k \in {"units", "calendar", "dtype"} |->
                     CASE k = "units" -> out.time_attrs["units"]
                       [] k = "calendar" -> out.time_attrs["calendar"]
                       [] k = "dtype" -> original.dtypes["time"]])
        ELSE IF var \in {"lat", "lon"}
        THEN DictUpdate(base_encoding, [k \in {"dtype"} |-> original.dtypes[var]])
        ELSE base_encoding]

RECURSIVE IndicesOfYear(_, _, _, _)
IndicesOfYear(time, units, year, i) ==
    IF i > Len(time) THEN <<>>
    ELSE (IF YearOf(units, time[i]) = year THEN <<i>> ELSE <<>>)
         \o IndicesOfYear(time, units, year, i + 1)

\* One group of output_xr.groupby("time.year")
YearPartition(out, year) ==
    LET idx == IndicesOfYear(out.time, out.time_attrs["units"], year, 1)
    IN  [out EXCEPT !.time = [k \in DOMAIN idx |-> out.time[idx[k]]],
                    !.data = [k \in DOMAIN idx |-> out.data[idx[k]]]]

YearsOf(out) == {YearOf(out.time_attrs["units"], out.time[i]) : i \in DOMAIN out.time}

write_dataset(self0) ==
    LET self == [Called(self0, "write_dataset") EXCEPT
                    !.hist.output_was_none = (self0.output_xr = None),
                    !.hist.raised_before = self0.raised,
                    !.hist.disk_before = self0.disk]
    IN  IF write_not_ready(self) THEN [self EXCEPT !.raised = "WriteNotReady"]
        ELSE
        LET tagged == [self EXCEPT !.output_xr.attrs =
                          DictUpdate(@, [k \in {"quality_control_operations"} |->
                              quality_control_operations(self.correction_descriptions)])]
            out == tagged.output_xr
        IN  IF "units" \notin DOMAIN out.time_attrs \/ "calendar" \notin DOMAIN out.time_attrs
            THEN [tagged EXCEPT !.raised = "KeyError"]
            ELSE IF self.original_input_xr = None
            THEN [tagged EXCEPT !.raised = "TypeError"]
            ELSE IF out.time_attrs["units"] \notin known_units \/ out.time = <<>>
            THEN [tagged EXCEPT !.raised = "ValueError"]
            ELSE IF "ar_binary_tag" \notin out.data_vars
            THEN [tagged EXCEPT !.raised = "ValueError",
                                !.disk.dirs = @ \cup YearsOf(out)]
            ELSE [tagged EXCEPT
                     !.disk.dirs = @ \cup YearsOf(out),
                     !.disk.files =
                         [y \in DOMAIN @ \cup YearsOf(out) |->
                             IF y \in YearsOf(out)
                             THEN [ds |-> YearPartition(out, y),
                                   encoding |-> encoding_dict(out, self.original_input_xr)]
                             ELSE @[y]]]

-----------------------------------------------------------------------------
(* __init__ *)

\* A constructor that goes on to the next statement after an exception
IgnoreRaised(self) == TRUE

\* An exception ends __init__: no statement runs after it
NothingRaised(self) == self.raised = NoError

NewSelf(self) ==
    [self EXCEPT !.corrections = <<>>,
                 !.correction_descriptions = <<>>,
                 !.artmip_input_xr = None,
                 !.original_input_xr = None,
                 !.output_xr = None]

\* `if self.auto_load_files:` and its two statements
LoadBoth(self) ==
    LET loaded == load_artmip_input_files(self)
    IN  IF NothingRaised(loaded) THEN load_original_input_files(loaded) ELSE loaded

\* `if self.auto_apply_corrections:` and its two statements
DetermineAndApply(self) ==
    LET determined == determine_corrections(self)
    IN  IF NothingRaised(determined) THEN apply_corrections(determined) ELSE determined

init(self0) ==
    LET new == NewSelf(self0)
        loaded == IF cfg.auto_load_files THEN LoadBoth(new) ELSE new
        applied == IF cfg.auto_apply_corrections /\ NothingRaised(loaded)
                   THEN DetermineAndApply(loaded) ELSE loaded
    IN  IF cfg.auto_write_files /\ NothingRaised(applied)
        THEN write_dataset(applied) ELSE applied

-----------------------------------------------------------------------------
(* The datasets the runs are given *)

\* The largest number of longitudes of a grid
MaxLon == 6

\* The number of timesteps of the reference
MaxTime == 4

\* Global grids of n equally spaced longitudes
GridSizes == {n \in 4..MaxLon : 360 % n = 0}

\* Ascending in (-180, 180]
SignedGrid(n) == [i \in 1..n |-> (i - 1 - ((n - 1) \div 2)) * (360 \div n)]

\* Ascending in [0, 360)
Grid0360(n) == [i \in 1..n |-> (i - 1) * (360 \div n)]

\* Ascending in [-180, 180)
GridFromMinus180(n) == [i \in 1..n |-> (i - 1) * (360 \div n) - 180]

\* A signed grid that does not hold longitude 0
ShiftedGrid(n) == [i \in 1..n |-> SignedGrid(n)[i] - 30]

Ascending(s) == SortSeq(s, LAMBDA a, b : a < b)

\* A regional grid of the western hemisphere, up to longitude 0
WesternGrid == <<-120, -60, 0>>

\* <<candidate longitudes, reference longitudes>>
LonPairs ==
    {<<Roll(WesternGrid, 1), WesternGrid>>,
     <<To0360(Roll(WesternGrid, 1)), WesternGrid>>} \cup
    UNION {{ <<SignedGrid(n), SignedGrid(n)>>,
             <<Grid0360(n), SignedGrid(n)>>,
             <<To0360(SignedGrid(n)), SignedGrid(n)>>,
             <<Roll(SignedGrid(n), 1), SignedGrid(n)>>,
             <<SignedGrid(n), Grid0360(n)>>,
             <<Grid0360(n), GridFromMinus180(n)>>,
             <<Ascending(To0360(ShiftedGrid(n))), ShiftedGrid(n)>> } : n \in GridSizes}

ReferenceTime == [i \in 1..MaxTime |-> (i - 1) * 200]

\* s without its i-th and j-th elements
Without(s, i, j) == SelectSeq([k \in DOMAIN s |-> IF k \in {i, j} THEN -1 ELSE s[k]],
                              LAMBDA v : v # -1)

\* The candidate's times: the reference's, the reference's with two timesteps
\* missing, other values of the same number, and times the reference lacks
CandidateTimes ==
    {ReferenceTime}
    \cup {Without(ReferenceTime, i, i + 1) : i \in 1..(MaxTime - 1)}
    \cup {Without(ReferenceTime, 1, MaxTime)}
    \cup {[i \in 1..MaxTime |-> ReferenceTime[i] + 50]}
    \cup {<<50, 200>>}

\* The attributes the drivers enforce (standardize_ARTMIP_Tier2_Paleo.py)
time_override ==
    [long_name |-> "time", units |-> "days since 0001-01-01 00:00:00",
     calendar |-> "365_day", standard_name |-> "time"]

lat_override ==
    [long_name |-> "latitude", units |-> "degrees_north", standard_name |-> "latitude"]

lon_override ==
    [long_name |-> "longitude", units |-> "degrees_east", standard_name |-> "longitude"]

coord_override_dict == [time |-> time_override, lat |-> lat_override, lon |-> lon_override]

Drop(d, k) == [x \in DOMAIN d \ {k} |-> d[x]]

\* <<candidate time attributes, reference time attributes>>
TimeAttrPairs ==
    { <<time_override, time_override>>,
      <<[time_override EXCEPT !.units = "days since 0201-01-01 00:00:00"], time_override>>,
      <<EmptyDict, time_override>>,
      <<time_override, Drop(time_override, "calendar")>> }

\* <<candidate lat, candidate lon, reference lat, reference lon>> attributes
CoordAttrPairs ==
    { <<lat_override, lon_override, lat_override, lon_override>>,
      <<lat_override, [lon_override EXCEPT !.units = "degrees_E"], lat_override, lon_override>>,
      <<EmptyDict, lon_override, Drop(lat_override, "units"), lon_override>> }

Dataset(lon, time, time_attrs, lat_attrs, lon_attrs, data_vars, data, dtype) ==
    [lon |-> lon, lon_attrs |-> lon_attrs,
     lat |-> <<-45, 45>>, lat_attrs |-> lat_attrs,
     time |-> time, time_attrs |-> time_attrs,
     data_vars |-> data_vars, data |-> data,
     time_encoding |-> EmptyDict,
     dtypes |-> [v \in CoordNames |-> dtype],
     attrs |-> EmptyDict]

\* The candidate's cells carry distinct non-zero labels
CellLabel(t, l) == 10 * t + l

CandidateDataset(lon, time, time_attrs, lat_attrs, lon_attrs) ==
    Dataset(lon, time, time_attrs, lat_attrs, lon_attrs, {"ar_binary_tag"},
            [t \in DOMAIN time |-> [l \in DOMAIN lon |-> CellLabel(t, l)]], "float32")

ReferenceDataset(lon, time, time_attrs, lat_attrs, lon_attrs) ==
    Dataset(lon, time, time_attrs, lat_attrs, lon_attrs, {"IVT"},
            [t \in DOMAIN time |-> [l \in DOMAIN lon |-> -1]], "float64")

\* A file specification: its Python type and the files it stands for (the
\* files a pattern matches, in the order the file system lists them, or the
\* paths of a list), each with its path (a number standing for its name in
\* sorting order) and the dataset it holds
OneFile(ds) == [kind |-> "str", found |-> <<[path |-> 1, ds |-> ds]>>]

\* A pattern that matches no file
NoFile == [kind |-> "str", found |-> <<>>]

\* [artmip, original]: the two file specifications
InputFiles ==
    { [artmip |-> OneFile(CandidateDataset(lp[1], ct, ta[1], ca[1], ca[2])),
       original |-> OneFile(ReferenceDataset(lp[2], ReferenceTime, ta[2], ca[3], ca[4]))] :
         lp \in LonPairs, ct \in CandidateTimes, ta \in TimeAttrPairs, ca \in CoordAttrPairs }

MetadataDicts ==
    { [artmip |-> None, original |-> coord_override_dict],
      [artmip |-> EmptyDict, original |-> None],
      [artmip |-> EmptyDict, original |-> EmptyDict],
      [artmip |-> EmptyDict, original |-> coord_override_dict],
      [artmip |-> coord_override_dict, original |-> coord_override_dict] }

\* The default of compression_level and another level
CompressionLevels == {4, 9}

Configs ==
    { [auto_load_files |-> al, auto_apply_corrections |-> aa, auto_write_files |-> aw,
       artmip_metadata_dict |-> md.artmip, metadata_dict |-> md.original,
       compression_level |-> cl, decode_files_separately |-> dfs] :
         al \in BOOLEAN, aa \in BOOLEAN, aw \in BOOLEAN, md \in MetadataDicts,
         cl \in CompressionLevels, dfs \in BOOLEAN }

\* The file pairs every configuration is run on: a consistent pair, a pair
\* that needs every correction, and a missing candidate
LargestGrid == CHOOSE n \in GridSizes : \A m \in GridSizes : m <= n

MainReference ==
    ReferenceDataset(SignedGrid(LargestGrid), ReferenceTime,
                     time_override, lat_override, lon_override)

MainFiles ==
    { [artmip |-> OneFile(CandidateDataset(SignedGrid(LargestGrid), ReferenceTime,
                      time_override, lat_override, lon_override)),
       original |-> OneFile(MainReference)],
      [artmip |-> OneFile(CandidateDataset(Grid0360(LargestGrid),
                      Without(ReferenceTime, 1, 2),
                      EmptyDict, lat_override, [lon_override EXCEPT !.units = "degrees_E"])),
       original |-> OneFile(MainReference)],
      [artmip |-> NoFile,
       original |-> OneFile(MainReference)] }

\* The configurations every file pair is run under: the whole pipeline in
\* the constructor, and every method left to the caller
MainConfigs ==
    { c \in Configs : /\ c.artmip_metadata_dict = EmptyDict
                      /\ c.metadata_dict = EmptyDict
                      /\ c.compression_level = 4
                      /\ ~c.decode_files_separately
                      /\ c.auto_load_files = c.auto_apply_corrections
                      /\ c.auto_apply_corrections = c.auto_write_files }

\* The timesteps from..to of a dataset
TimeSlice(ds, from, to) ==
    [ds EXCEPT !.time = SubSeq(@, from, to), !.data = SubSeq(@, from, to)]

\* A candidate stored in two files, the first holding the first SplitAt
\* timesteps; the second file is listed first
SplitAt == MaxTime \div 2

TwoFiles(kind, first, second) ==
    [kind |-> kind, found |-> <<[path |-> 2, ds |-> TimeSlice(second, SplitAt + 1, MaxTime)],
                                [path |-> 1, ds |-> TimeSlice(first, 1, SplitAt)]>>]

ConsistentCandidate ==
    CandidateDataset(SignedGrid(LargestGrid), ReferenceTime,
                     time_override, lat_override, lon_override)

\* The same candidate with its time counted from another origin
LaterOriginCandidate ==
    [ConsistentCandidate EXCEPT !.time_attrs["units"] = "days since 0201-01-01 00:00:00"]

\* The same candidate without attributes on its time coordinate
BareTimeCandidate == [ConsistentCandidate EXCEPT !.time_attrs = EmptyDict]

\* The same candidate on 0-360 longitudes
ConventionCandidate == [ConsistentCandidate EXCEPT !.lon = To0360(@)]

\* The candidates of the runs that load file by file: a candidate in two
\* files given as a pattern and as a list, files with different time origins,
\* files without time units, one file, no file, and a specification that is
\* neither a string nor a list
SeparateFiles ==
    { [artmip |-> a, original |-> OneFile(MainReference)] :
        a \in { TwoFiles("str", ConsistentCandidate, ConsistentCandidate),
                TwoFiles("list", ConsistentCandidate, ConsistentCandidate),
                TwoFiles("str", ConsistentCandidate, LaterOriginCandidate),
                TwoFiles("str", BareTimeCandidate, BareTimeCandidate),
                OneFile(ConsistentCandidate),
                OneFile(ConventionCandidate),
                NoFile,
                [kind |-> "list", found |-> <<>>],
                [kind |-> "int", found |-> <<>>] } }

SeparateConfigs == { c \in Configs : c.compression_level = 4 }

IsRunInput(c, f) ==
    \/ c \in MainConfigs /\ f \in InputFiles
    \/ c \in Configs /\ ~c.decode_files_separately /\ f \in MainFiles
    \/ c \in SeparateConfigs /\ f \in SeparateFiles

NoHistory ==
    [steps |-> <<>>, determine_log |-> <<>>, apply_log |-> <<>>,
     apply_completed |-> FALSE, output_was_none |-> TRUE, raised_before |-> NoError,
     disk_before |-> [dirs |-> {}, files |-> <<>>]]

-----------------------------------------------------------------------------
(* The run: one standardizer object, constructed and then called *)

Init ==
    /\ all_corrections = ImportedRegistry.all
    /\ all_correction_descriptions = ImportedRegistry.descriptions
    /\ IsRunInput(cfg, files)
    /\ pc = "new"
    /\ artmip_input_xr = None
    /\ original_input_xr = None
    /\ output_xr = None
    /\ corrections = <<>>
    /\ correction_descriptions = <<>>
    /\ raised = NoError
    /\ disk = [dirs |-> {}, files |-> <<>>]
    /\ hist = NoHistory
    /\ probe = None

Becomes(self) ==
    /\ artmip_input_xr' = self.artmip_input_xr
    /\ original_input_xr' = self.original_input_xr
    /\ output_xr' = self.output_xr
    /\ corrections' = self.corrections
    /\ correction_descriptions' = self.correction_descriptions
    /\ raised' = self.raised
    /\ disk' = self.disk
    /\ hist' = self.hist
    /\ UNCHANGED <<all_corrections, all_correction_descriptions, cfg, files, probe>>

\* ARTMIPStandardizer(...): an exception leaves the caller without the object
Construct ==
    /\ pc = "new"
    /\ Becomes(init(Entering(Self)))
    /\ pc' = IF init(Entering(Self)).raised = NoError THEN "constructed" ELSE "failed"

\* The methods, called on the constructed object in any order
CallLoadArtmip ==
    /\ pc = "constructed"
    /\ Becomes(load_artmip_input_files(Entering(Self)))
    /\ UNCHANGED pc

CallLoadOriginal ==
    /\ pc = "constructed"
    /\ Becomes(load_original_input_files(Entering(Self)))
    /\ UNCHANGED pc

CallDetermine ==
    /\ pc = "constructed"
    /\ Becomes(determine_corrections(Entering(Self)))
    /\ UNCHANGED pc

CallApply ==
    /\ pc = "constructed"
    /\ Becomes(apply_corrections(Entering(Self)))
    /\ UNCHANGED pc

CallWrite ==
    /\ pc = "constructed"
    /\ Becomes(write_dataset(Entering(Self)))
    /\ UNCHANGED pc

Next ==
    \/ Construct
    \/ CallLoadArtmip
    \/ CallLoadOriginal
    \/ CallDetermine
    \/ CallApply
    \/ CallWrite

Spec == Init /\ [][Next]_vars

-----------------------------------------------------------------------------
(* The registry while the module is imported and corrections are added *)

\* Functions a caller may hand to correction(): well-formed ones, and ones
\* lacking a parameter, or with an empty or no docstring
ExtraNames == {"do_nothing", "fill_nan", "swap_lon_convention"}

ExtraDocs ==
    { NoDoc, Doc(<<>>), Doc(<<" ">>),
      Doc(<<"Pass the ARTMIP dataset through without modification.">>) }

ExtraFuncs ==
    { Func(n, ps, d) : n \in ExtraNames,
                       ps \in {AllParameters} \cup {AllParameters \ {q} : q \in AllParameters},
                       d \in ExtraDocs }

RegistryInit ==
    /\ all_corrections = <<>>
    /\ all_correction_descriptions = <<>>
    /\ pc = "importing"
    /\ raised = NoError
    /\ hist = [func |-> None, all_before |-> <<>>, descriptions_before |-> <<>>]
    /\ cfg = None /\ files = None /\ probe = None
    /\ artmip_input_xr = None /\ original_input_xr = None /\ output_xr = None
    /\ corrections = <<>> /\ correction_descriptions = <<>>
    /\ disk = [dirs |-> {}, files |-> <<>>]

\* correction(func): the decorator
Decorate(func) ==
    LET reg == Registered([all |-> all_corrections,
                           descriptions |-> all_correction_descriptions], func)
    IN  /\ all_corrections' = reg.all
        /\ all_correction_descriptions' = reg.descriptions
        /\ raised' = reg.raised
        /\ hist' = [func |-> func, all_before |-> all_corrections,
                    descriptions_before |-> all_correction_descriptions]
        /\ UNCHANGED <<cfg, files, probe, artmip_input_xr, original_input_xr, output_xr,
                       corrections, correction_descriptions, disk>>

\* Importing artmip_corrections decorates its five functions in source order
ImportNext ==
    /\ pc = "importing"
    /\ Decorate(BuiltinCorrections[Len(all_corrections) + 1])
    /\ pc' = IF Len(all_corrections) + 1 = Len(BuiltinCorrections)
             THEN "imported" ELSE "importing"

\* A caller decorates a function of its own
RegisterExtra ==
    /\ pc = "imported"
    /\ \E func \in ExtraFuncs : Decorate(func)
    /\ UNCHANGED pc

RegistryNext == ImportNext \/ RegisterExtra

RegistrySpec == RegistryInit /\ [][RegistryNext]_vars

-----------------------------------------------------------------------------
(* One correction tried alone: determine, apply, determine again *)

\* The longest longitude array tried
MaxProbeLon == 3

\* The longest time array tried
MaxProbeTime == 3

LonValues == {-180, -90, 0, 90, 180, 270}

\* The sequences of 1..n distinct elements of S
RECURSIVE DistinctSeqs(_, _)
DistinctSeqs(S, n) ==
    IF n = 0 THEN {<<>>}
    ELSE LET shorter == DistinctSeqs(S, n - 1)
         IN  shorter \cup {Append(q, v) : q \in {x \in shorter : Len(x) = n - 1},
                                          v \in S}

NoRepeat(q) == \A i, j \in DOMAIN q : i # j => q[i] # q[j]

IndexSeqs(S, lo, hi) == {q \in DistinctSeqs(S, hi) : Len(q) >= lo /\ NoRepeat(q)}

LonSeqs == IndexSeqs(LonValues, 2, MaxProbeLon)

IsAscending(q) == \A i \in 1..(Len(q) - 1) : q[i] < q[i + 1]

\* The reference's longitudes run eastwards from some index on; the
\* candidate's are in any order
ReferenceLonSeqs == {q \in LonSeqs : \E n \in 0..(Len(q) - 1) : IsAscending(Roll(q, n))}

ProbeLonPairs ==
    {lp \in LonSeqs \X ReferenceLonSeqs :
        Len(lp[1]) = Len(lp[2]) \/ (IsAscending(lp[1]) /\ IsAscending(lp[2]))}

TimeSeqs == IndexSeqs({(i - 1) * 200 : i \in 1..MaxProbeTime}, 1, MaxProbeTime)

\* Dictionaries over some of the keys of d, each key with d's value or another
Variants(d, other) ==
    UNION { [K -> {"ref", "other"}] : K \in SUBSET DOMAIN d }

Variant(d, other, choice) ==
    [k \in DOMAIN choice |-> IF choice[k] = "ref" THEN d[k] ELSE other]

AttrVariants(d, other) == {Variant(d, other, c) : c \in Variants(d, other)}

BaseLon == SignedGrid(4)

BaseTime == <<0, 200>>

TimeAttrVariants == AttrVariants(time_override, "other")

LatAttrVariants == AttrVariants(lat_override, "other")

LonAttrVariants == AttrVariants(lon_override, "other")

\* The pair differs in its longitudes only, in its times only, in its time
\* attributes only, in its lat or in its lon attributes only
IsProbePair(artmip_xr, input_xr) ==
    \/ \E lp \in ProbeLonPairs :
          /\ artmip_xr = CandidateDataset(lp[1], BaseTime, time_override, lat_override, lon_override)
          /\ input_xr = ReferenceDataset(lp[2], BaseTime, time_override, lat_override, lon_override)
    \/ \E ct \in TimeSeqs, rt \in TimeSeqs :
          /\ artmip_xr = CandidateDataset(BaseLon, ct, time_override, lat_override, lon_override)
          /\ input_xr = ReferenceDataset(BaseLon, rt, time_override, lat_override, lon_override)
    \/ \E ca \in TimeAttrVariants, ra \in TimeAttrVariants :
          /\ artmip_xr = CandidateDataset(BaseLon, BaseTime, ca, lat_override, lon_override)
          /\ input_xr = ReferenceDataset(BaseLon, BaseTime, ra, lat_override, lon_override)
    \/ \E ca \in LatAttrVariants, ra \in LatAttrVariants :
          /\ artmip_xr = CandidateDataset(BaseLon, BaseTime, time_override, ca, lon_override)
          /\ input_xr = ReferenceDataset(BaseLon, BaseTime, time_override, ra, lon_override)
    \/ \E ca \in LonAttrVariants, ra \in LonAttrVariants :
          /\ artmip_xr = CandidateDataset(BaseLon, BaseTime, time_override, lat_override, ca)
          /\ input_xr = ReferenceDataset(BaseLon, BaseTime, time_override, lat_override, ra)

ProbeInit ==
    /\ all_corrections = ImportedRegistry.all
    /\ all_correction_descriptions = ImportedRegistry.descriptions
    /\ IsProbePair(artmip_input_xr, original_input_xr)
    /\ pc = "probe"
    /\ probe = None
    /\ raised = NoError
    /\ hist = NoHistory
    /\ cfg = None /\ files = None /\ output_xr = None
    /\ corrections = <<>> /\ correction_descriptions = <<>>
    /\ disk = [dirs |-> {}, files |-> <<>>]

\* The determine phase, the apply phase whatever it answered, and the
\* determine phase on what the apply phase returned
Probed(name) ==
    LET determined == Determine(name, artmip_input_xr, original_input_xr)
        applied == Apply(name, artmip_input_xr, original_input_xr)
    IN  [name |-> name,
         determined |-> determined,
         applied |-> applied,
         redetermined |-> IF applied.raised # NoError THEN "NotRun"
                          ELSE Determine(name, applied.ds, original_input_xr)]

Probe ==
    /\ pc = "probe"
    /\ probe = None
    /\ \E i \in DOMAIN all_corrections : probe' = Probed(all_corrections[i].key)
    /\ UNCHANGED <<all_corrections, all_correction_descriptions, cfg, files, pc,
                   artmip_input_xr, original_input_xr, output_xr, corrections,
                   correction_descriptions, raised, disk, hist>>

ProbeSpec == ProbeInit /\ [][Probe]_vars

-----------------------------------------------------------------------------
(* Properties of the run (Spec) *)

Last(q) == q[Len(q)]

\* The method entered last by the last call from outside
LastStep == IF hist.steps = <<>> THEN "" ELSE Last(hist.steps)

RegistryNames == ODKeys(all_corrections)

\* The answer the last determine_corrections got from a correction
LoggedResult(name) ==
    hist.determine_log[CHOOSE i \in DOMAIN hist.determine_log :
                           hist.determine_log[i].name = name].result

\* The last determine_corrections asked every registered correction, in
\* registry order, and none raised
DetermineCompleted ==
    /\ Len(hist.determine_log) = Len(all_corrections)
    /\ Len(all_corrections) > 0
    /\ \A i \in DOMAIN hist.determine_log :
          /\ hist.determine_log[i].name = RegistryNames[i]
          /\ ~IsError(hist.determine_log[i].result)

\* C1: after determine_corrections ran without error, the plan
\* (self.corrections) holds exactly the registered corrections whose
\* determine phase returned true for the loaded pair, each with its registered
\* function, and iterates them in registry order.
C1_PlanIsTheNeededCorrectionsInRegistryOrder ==
    DetermineCompleted =>
        /\ ODKeys(corrections) =
               SelectSeq(RegistryNames, LAMBDA name : LoggedResult(name) = "True")
        /\ \A i \in DOMAIN hist.determine_log :
              hist.determine_log[i].result =
                  Determine(RegistryNames[i], artmip_input_xr, original_input_xr)
        /\ \A i \in DOMAIN corrections :
              corrections[i].value = ODGet(all_corrections, corrections[i].key)

\* A plan that keeps some corrections and leaves others out, and does not
\* start with the first of the registry
C1_Witness ==
    /\ DetermineCompleted
    /\ Len(corrections) >= 2
    /\ Len(corrections) < Len(all_corrections)
    /\ corrections[1].key # RegistryNames[1]

\* The last apply_corrections ran the apply phase of some correction and none
\* raised
ApplyRan ==
    /\ hist.apply_log # <<>>
    /\ \A i \in DOMAIN hist.apply_log : hist.apply_log[i].raised = NoError

\* C2: apply_corrections runs the apply phase of every correction of the plan
\* once, in plan order; the first is given the loaded candidate, every later
\* one the dataset the one before it returned, all are given the loaded
\* reference, and self.output_xr is what the last one returned (write_dataset
\* later adds the provenance attribute to that same dataset).
C2_ApplyThreadsThePlanInOrder ==
    ApplyRan =>
        LET log == hist.apply_log
        IN  /\ [i \in DOMAIN log |-> log[i].name] = ODKeys(corrections)
            /\ log[1].artmip_xr = artmip_input_xr
            /\ \A i \in 2..Len(log) : log[i].artmip_xr = log[i - 1].returned
            /\ \A i \in DOMAIN log : log[i].input_xr = original_input_xr
            /\ output_xr # None
            /\ [output_xr EXCEPT !.attrs = EmptyDict] = Last(log).returned
            /\ LastStep = "apply_corrections" => output_xr = Last(log).returned

\* All five corrections applied, each changing the dataset it was given
C2_Witness ==
    /\ ApplyRan
    /\ LastStep = "apply_corrections"
    /\ Len(hist.apply_log) = 5
    /\ \A i \in DOMAIN hist.apply_log :
          hist.apply_log[i].returned # hist.apply_log[i].artmip_xr

\* C3 as stated: a correction whose determine phase returned false is not
\* applied by apply_corrections, and the dataset goes on to the next stage as
\* the previous stage left it; when every correction returned false that
\* dataset is the loaded candidate, which apply_corrections hands on as
\* self.output_xr.
C3_SkippedCorrectionPassesTheDatasetOn ==
    (DetermineCompleted /\ LastStep = "apply_corrections") =>
        /\ \A i \in DOMAIN hist.apply_log :
              LoggedResult(hist.apply_log[i].name) = "True"
        /\ (\A i \in DOMAIN hist.determine_log : hist.determine_log[i].result = "False")
              => raised = NoError /\ output_xr = artmip_input_xr

\* The descriptions of the builtin corrections hold whitespace at their two
\* ends only: stripped, they are their other tokens
Stripped(text) == SelectSeq(text, LAMBDA tok : ~IsSpace(tok))

\* The provenance string of the corrections the last apply_corrections ran
ProvenanceOfApplied ==
    Join("; ", [i \in DOMAIN hist.apply_log |->
                   Stripped(ODGet(all_correction_descriptions, hist.apply_log[i].name).text)])

\* C5: the quality_control_operations attribute of every written partition
\* (and of self.output_xr once write_dataset has set it) is the stripped
\* descriptions of the corrections whose apply phase produced the output, one
\* each, in the order they were applied, joined by "; ".
C5_ProvenanceListsTheAppliedCorrections ==
    /\ \A y \in DOMAIN disk.files :
          /\ ApplyRan
          /\ disk.files[y].ds.attrs["quality_control_operations"] = ProvenanceOfApplied
    /\ (output_xr # None /\ "quality_control_operations" \in DOMAIN output_xr.attrs)
          => output_xr.attrs["quality_control_operations"] = ProvenanceOfApplied

\* Partitions written after some but not all corrections were applied
C5_Witness ==
    /\ disk.files # <<>>
    /\ Len(hist.apply_log) \in 2..4
    /\ \A y \in DOMAIN disk.files :
          Len(disk.files[y].ds.attrs["quality_control_operations"]) = 2 * Len(hist.apply_log) - 1

\* C6: nothing is on disk unless both datasets were loaded and
\* apply_corrections completed; write_dataset entered while self.output_xr is
\* None raises WriteNotReady and leaves the disk as it found it; and
\* write_dataset is entered only when nothing was raised before it in the same
\* call (the constructor stops at the first exception).
C6_NothingPersistedBeforeApplyCompleted ==
    /\ (disk.dirs # {} \/ disk.files # <<>>) =>
          /\ artmip_input_xr # None
          /\ original_input_xr # None
          /\ output_xr # None
          /\ hist.apply_completed
    /\ (LastStep = "write_dataset" /\ hist.output_was_none) =>
          raised = "WriteNotReady" /\ disk = hist.disk_before
    /\ "write_dataset" \in Range(hist.steps) => hist.raised_before = NoError
    /\ (pc = "failed" /\ LastStep # "write_dataset") => disk.files = <<>>

\* write_dataset called after an apply_corrections that raised
C6_Witness ==
    /\ LastStep = "write_dataset"
    /\ raised = "WriteNotReady"
    /\ hist.apply_log # <<>>
    /\ ~hist.apply_completed
    /\ disk.dirs = {}

\* The loaded pair of the end-to-end scenario: the candidate in 0-360, the
\* reference signed and ascending within (-180, 180], the same longitudes 2
\* positions apart, 2 timesteps of the reference missing from the candidate
\* (its times being numbers as read, labels of the reference's), time and
\* lat/lon attributes that differ
EndToEndScenario ==
    /\ artmip_input_xr # None
    /\ original_input_xr # None
    /\ ~IsDecoded(artmip_input_xr)
    /\ LET c == artmip_input_xr
           r == original_input_xr
       IN  /\ Len(c.lon) = Len(r.lon)
           /\ MinOf(c.lon) >= 0
           /\ MinOf(r.lon) < 0 /\ MinOf(r.lon) > -180
           /\ IsAscending(r.lon)
           /\ Roll(ToSigned(c.lon), 2) = r.lon
           /\ IndexOfZero(r.lon) - IndexOfZero(c.lon) = 2
           /\ Range(c.time) \subseteq Range(r.time)
           /\ Len(c.time) = Len(r.time) - 2
           /\ \E i \in DOMAIN time_check_atts :
                 AttDiffers(r.time_attrs, c.time_attrs, time_check_atts[i])
           /\ \E i \in DOMAIN check_atts :
                 \/ AttDiffers(r.lat_attrs, c.lat_attrs, check_atts[i])
                 \/ AttDiffers(r.lon_attrs, c.lon_attrs, check_atts[i])

\* The two dictionaries agree on the attribute: both lack it, or both have it
\* with one value
SameAttribute(a, b, att) ==
    /\ (att \in DOMAIN a) = (att \in DOMAIN b)
    /\ att \in DOMAIN a => a[att] = b[att]

\* The output agrees with the reference in what the corrections check
MatchesReference(out, r) ==
    /\ out.lon = r.lon
    /\ out.time = r.time
    /\ Len(out.time) = Len(r.time)
    /\ out.time_attrs = r.time_attrs
    /\ \A i \in DOMAIN check_atts :
          /\ SameAttribute(out.lat_attrs, r.lat_attrs, check_atts[i])
          /\ SameAttribute(out.lon_attrs, r.lon_attrs, check_atts[i])

AllFiveDescriptions ==
    Join("; ", [i \in DOMAIN all_corrections |->
                   Stripped(all_correction_descriptions[i].value.text)])

\* The three steps of the scenario end as the scenario expects
EndToEndOutcome ==
    /\ LastStep = "determine_corrections" =>
          /\ raised = NoError
          /\ ODKeys(corrections) = RegistryNames
    /\ (LastStep = "apply_corrections" /\ ODKeys(corrections) = RegistryNames) =>
          /\ raised = NoError
          /\ MatchesReference(output_xr, original_input_xr)
    /\ (LastStep = "write_dataset" /\ ~hist.output_was_none) =>
          /\ raised = NoError
          /\ MatchesReference(output_xr, original_input_xr)
          /\ output_xr.attrs["quality_control_operations"] = AllFiveDescriptions
          /\ \A y \in DOMAIN disk.files :
                disk.files[y].ds.attrs["quality_control_operations"] = AllFiveDescriptions

\* C8 as stated: on the pair of the end-to-end scenario determine_corrections
\* completes with all five corrections in the plan, apply_corrections then
\* completes with an output whose longitudes, times and checked attributes
\* are the reference's, and write_dataset then completes with a provenance
\* attribute that lists the five descriptions in registration order.
C8_EndToEndMatchesTheReference == EndToEndScenario => EndToEndOutcome

\* The references on which the scenario does run to its end: signed
\* longitudes on both sides of 0, and every checked attribute present
ReferenceSpansBothSigns ==
    /\ original_input_xr # None
    /\ MaxOf(original_input_xr.lon) > 0
    /\ \A i \in DOMAIN time_check_atts :
          time_check_atts[i] \in DOMAIN original_input_xr.time_attrs
    /\ \A i \in DOMAIN check_atts :
          /\ check_atts[i] \in DOMAIN original_input_xr.lat_attrs
          /\ check_atts[i] \in DOMAIN original_input_xr.lon_attrs

\* The end-to-end scenario on a reference that spans both signs and carries
\* every checked attribute ends as expected
EndToEndOnATwoSignedReference ==
    (EndToEndScenario /\ ReferenceSpansBothSigns) => EndToEndOutcome

-----------------------------------------------------------------------------
(* Properties of the registry (RegistrySpec) *)

\* A function that lacks one of the four parameters, or has no docstring or
\* an empty one
Malformed(func) ==
    \/ \E i \in DOMAIN required_parameters : required_parameters[i] \notin func.parameters
    \/ func.doc.is_none
    \/ func.doc.text = <<>>

\* C7 as stated: decorating a malformed function fails with the
\* MalformedCorrection error (the AssertionError of the asserts of
\* correction()) and leaves both registry dictionaries as they were, so every
\* entry of the registry has the four parameters and a non-empty description.
C7_MalformedRegistrationIsRejected ==
    /\ (hist.func # None /\ Malformed(hist.func)) =>
          /\ raised = "AssertionError"
          /\ all_corrections = hist.all_before
          /\ all_correction_descriptions = hist.descriptions_before
    /\ \A i \in DOMAIN all_corrections :
          /\ ~Malformed(all_corrections[i].value)
          /\ ODHas(all_correction_descriptions, all_corrections[i].key)
          /\ ODGet(all_correction_descriptions, all_corrections[i].key).text # <<>>

-----------------------------------------------------------------------------
(* Properties of a correction tried alone (ProbeSpec) *)

ProbedIs(name) == probe # None /\ probe.name = name

InSigned(v) == -180 < v /\ v <= 180

In0360(v) == 0 <= v /\ v < 360

\* The same physical longitude at every position
SameLongitudesInPlace(a, b) ==
    /\ Len(a) = Len(b)
    /\ \A i \in DOMAIN a : (a[i] - b[i]) % 360 = 0

\* The candidate's longitudes, remapped to the other convention, are the
\* reference's position by position
SwapReproducesReference(c, r) ==
    /\ SameLongitudesInPlace(c.lon, r.lon)
    /\ \A i \in DOMAIN r.lon :
          IF MinOf(c.lon) >= 0 THEN InSigned(r.lon[i]) ELSE In0360(r.lon[i])

HasAll(attrs, atts) == \A i \in DOMAIN atts : atts[i] \in DOMAIN attrs

\* C4 as stated: for each of the five corrections, when the determine phase
\* returns true on a pair, the determine phase on what the apply phase
\* returned (and the same reference) returns false.
C4_OneApplicationRemovesTheDeviation ==
    (probe # None /\ probe.determined = "True") => probe.redetermined = "False"

\* C4, amended: when the determine phase returns true on a pair, the
\* determine phase on what the apply phase returned is false for
\* rotate_longitudes and insert_missing_times always; for swap_lon_convention
\* exactly when the remapped longitudes are the reference's position by
\* position; for override_time_values_and_metadata exactly when the two time
\* arrays have the same length and the reference carries the four checked
\* attributes; for override_coordinate_metadata exactly when the reference
\* carries the three checked attributes on lat and on lon.
C4_OneApplicationRemovesTheDeviationWhenTheReferenceAllows ==
    (probe # None /\ probe.determined = "True") =>
        LET c == artmip_input_xr
            r == original_input_xr
            removed == probe.redetermined = "False"
        IN  CASE probe.name = "swap_lon_convention" ->
                     removed <=> SwapReproducesReference(c, r)
              [] probe.name = "rotate_longitudes" -> removed
              [] probe.name = "insert_missing_times" -> removed
              [] probe.name = "override_time_values_and_metadata" ->
                     removed <=> (/\ Len(c.time) = Len(r.time)
                                  /\ HasAll(r.time_attrs, time_check_atts))
              [] probe.name = "override_coordinate_metadata" ->
                     removed <=> (/\ HasAll(r.lat_attrs, check_atts)
                                  /\ HasAll(r.lon_attrs, check_atts))

\* The time override needed for the attributes alone, and removed by applying
C4_Witness ==
    /\ ProbedIs("override_time_values_and_metadata")
    /\ probe.determined = "True"
    /\ probe.redetermined = "False"
    /\ artmip_input_xr.time = original_input_xr.time
    /\ artmip_input_xr.time_attrs # original_input_xr.time_attrs

\* C9 as stated: on longitude arrays of equal length the determine phase of
\* swap_lon_convention returns false when the values are equal; otherwise it
\* takes a dataset for 0-360 exactly when its smallest longitude is >= 0, and
\* returns true when the two datasets differ in that and raises
\* ConventionMismatch when they do not.
C9_SwapDetermineClassifiesByTheMinimum ==
    (ProbedIs("swap_lon_convention")
        /\ Len(artmip_input_xr.lon) = Len(original_input_xr.lon)) =>
        probe.determined =
            IF artmip_input_xr.lon = original_input_xr.lon THEN "False"
            ELSE IF (MinOf(artmip_input_xr.lon) >= 0) # (MinOf(original_input_xr.lon) >= 0)
                 THEN "True"
                 ELSE "ConventionMismatch"

\* The candidate is in 0-360, the reference signed, and the two hold the same
\* physical longitudes
SwapScenario(c, r) ==
    /\ Len(c.lon) = Len(r.lon)
    /\ \A i \in DOMAIN c.lon : In0360(c.lon[i])
    /\ MinOf(r.lon) < 0
    /\ MaxOf(r.lon) <= 180
    /\ {v % 360 : v \in Range(c.lon)} = {v % 360 : v \in Range(r.lon)}

\* C10 as stated: for a candidate in 0-360 and a signed reference with the
\* same physical longitudes, the apply phase of swap_lon_convention returns
\* the reference's longitudes position by position, and the data it returns
\* is the candidate's at every index.
C10_SwapApplyReturnsTheReferenceLongitudes ==
    (ProbedIs("swap_lon_convention")
        /\ SwapScenario(artmip_input_xr, original_input_xr)) =>
        /\ probe.applied.raised = NoError
        /\ probe.applied.ds.lon = original_input_xr.lon
        /\ probe.applied.ds.data = artmip_input_xr.data

\* C10, amended: for a candidate in 0-360 the apply phase of
\* swap_lon_convention returns, at every position, the candidate's longitude
\* as a value of (-180, 180], with the candidate's data at every index; the
\* returned longitudes are the reference's position by position when the
\* reference lies in (-180, 180] and holds, at every position, the same
\* physical longitude as the candidate.
C10_SwapApplyRelabelsEachPosition ==
    (ProbedIs("swap_lon_convention")
        /\ \A i \in DOMAIN artmip_input_xr.lon : In0360(artmip_input_xr.lon[i])) =>
        LET c == artmip_input_xr
            r == original_input_xr
            out == probe.applied.ds
        IN  /\ probe.applied.raised = NoError
            /\ out.data = c.data
            /\ SameLongitudesInPlace(out.lon, c.lon)
            /\ \A i \in DOMAIN out.lon : InSigned(out.lon[i])
            /\ (SameLongitudesInPlace(c.lon, r.lon)
                   /\ \A i \in DOMAIN r.lon : InSigned(r.lon[i]))
                  => out.lon = r.lon

\* A 0-360 candidate with longitudes past 180 and at 180, relabelled to a
\* signed reference
C10_Witness ==
    /\ ProbedIs("swap_lon_convention")
    /\ SwapScenario(artmip_input_xr, original_input_xr)
    /\ MaxOf(artmip_input_xr.lon) > 180
    /\ 180 \in Range(artmip_input_xr.lon)
    /\ probe.applied.ds.lon = original_input_xr.lon
    /\ probe.applied.ds.lon # artmip_input_xr.lon

\* The candidate's longitudes are the reference's, cyclically shifted by some
\* number of positions other than 0, and hold the value 0
IsRotationOfReference(c, r) ==
    /\ Len(c.lon) = Len(r.lon)
    /\ c.lon # r.lon
    /\ 0 \in Range(c.lon)
    /\ \E k \in 1..(Len(c.lon) - 1) :
          \A i \in DOMAIN c.lon : r.lon[((i - 1 + k) % Len(c.lon)) + 1] = c.lon[i]

\* C11: for a candidate whose longitudes are a cyclic rotation of the
\* reference's and hold 0, rotate_longitudes determines that the correction is
\* needed; with offset = (index of 0 in the reference) - (index of 0 in the
\* candidate), its apply phase moves the longitude and the data of every
\* position i to position i + offset (cyclically), so the longitudes it
\* returns are the reference's and every physical longitude keeps its data.
C11_RotateShiftsCoordinateAndDataByTheOffset ==
    (ProbedIs("rotate_longitudes")
        /\ IsRotationOfReference(artmip_input_xr, original_input_xr)) =>
        LET c == artmip_input_xr
            r == original_input_xr
            out == probe.applied.ds
            n == Len(c.lon)
            offset == IndexOfZero(r.lon) - IndexOfZero(c.lon)
            moved(i) == ((i - 1 + offset) % n) + 1
        IN  /\ probe.determined = "True"
            /\ offset # 0
            /\ probe.applied.raised = NoError
            /\ out.lon = r.lon
            /\ \A i \in DOMAIN c.lon :
                  /\ out.lon[moved(i)] = c.lon[i]
                  /\ \A t \in DOMAIN c.data : out.data[t][moved(i)] = c.data[t][i]
            /\ out.time = c.time

\* Three longitudes rotated by a negative offset
C11_Witness ==
    /\ ProbedIs("rotate_longitudes")
    /\ IsRotationOfReference(artmip_input_xr, original_input_xr)
    /\ Len(artmip_input_xr.lon) = 3
    /\ IndexOfZero(original_input_xr.lon) < IndexOfZero(artmip_input_xr.lon)
    /\ probe.determined = "True"
    /\ probe.applied.ds.lon = original_input_xr.lon
    /\ probe.applied.ds.data # artmip_input_xr.data

\* Every time of the candidate is a time of the reference, which has more
IsStrictSubsetInTime(c, r) ==
    /\ Range(c.time) \subseteq Range(r.time)
    /\ Range(c.time) # Range(r.time)

\* C12: for a candidate whose times are a strict subset of the reference's,
\* the apply phase of insert_missing_times returns the reference's times (same
\* length, same order); the data is 0 at every timestep the candidate lacks
\* and the candidate's own at every timestep it has; the longitudes are left
\* alone.
C12_InsertFillsMissingTimesWithZero ==
    (ProbedIs("insert_missing_times")
        /\ IsStrictSubsetInTime(artmip_input_xr, original_input_xr)) =>
        LET c == artmip_input_xr
            r == original_input_xr
            out == probe.applied.ds
        IN  /\ probe.applied.raised = NoError
            /\ out.time = r.time
            /\ Len(out.data) = Len(r.time)
            /\ \A k \in DOMAIN r.time :
                  /\ \A j \in DOMAIN c.time :
                        r.time[k] = c.time[j] => out.data[k] = c.data[j]
                  /\ r.time[k] \notin Range(c.time) =>
                        \A l \in DOMAIN c.lon : out.data[k][l] = 0
            /\ out.lon = c.lon

\* A candidate with one timestep, which is not the reference's first, of a
\* reference with three
C12_Witness ==
    /\ ProbedIs("insert_missing_times")
    /\ IsStrictSubsetInTime(artmip_input_xr, original_input_xr)
    /\ Len(artmip_input_xr.time) = 1
    /\ Len(original_input_xr.time) = 3
    /\ artmip_input_xr.time[1] # original_input_xr.time[1]
    /\ probe.determined = "True"
    /\ probe.applied.ds.time = original_input_xr.time

\* Some time of the candidate is not a time of the reference
IsOutsideReferenceTimes(c, r) == \E j \in DOMAIN c.time : c.time[j] \notin Range(r.time)

\* C13 as stated: for a candidate with a time that the reference lacks, the
\* determine phase of insert_missing_times raises TimeDomainMismatch.
C13_InsertDetermineRaisesOutsideTheReferenceTimes ==
    (ProbedIs("insert_missing_times")
        /\ IsOutsideReferenceTimes(artmip_input_xr, original_input_xr)) =>
        probe.determined = "TimeDomainMismatch"

\* C13, amended: for a candidate with a time that the reference lacks, the
\* determine phase of insert_missing_times raises TimeDomainMismatch when the
\* two time arrays differ in length, and returns false (the times are not
\* looked at) when they have the same length; it never returns true.
C13_InsertDetermineRaisesWhenLengthsDifferToo ==
    (ProbedIs("insert_missing_times")
        /\ IsOutsideReferenceTimes(artmip_input_xr, original_input_xr)) =>
        probe.determined =
            IF Len(artmip_input_xr.time) # Len(original_input_xr.time)
            THEN "TimeDomainMismatch"
            ELSE "False"

\* A shorter candidate with a time of its own
C13_Witness ==
    /\ ProbedIs("insert_missing_times")
    /\ IsOutsideReferenceTimes(artmip_input_xr, original_input_xr)
    /\ Len(artmip_input_xr.time) < Len(original_input_xr.time)
    /\ probe.determined = "TimeDomainMismatch"

\* One of the four checked attributes of the time coordinate differs between
\* the two datasets or is absent
TimeAttributeDeviates(c, r) ==
    \E i \in DOMAIN time_check_atts :
        \/ time_check_atts[i] \notin DOMAIN c.time_attrs
        \/ time_check_atts[i] \notin DOMAIN r.time_attrs
        \/ c.time_attrs[time_check_atts[i]] # r.time_attrs[time_check_atts[i]]

\* The two time arrays have the same length and differ in some value (the
\* times of the model are far apart: close is equal)
TimeValuesDeviate(c, r) ==
    /\ Len(c.time) = Len(r.time)
    /\ \E i \in DOMAIN c.time : c.time[i] # r.time[i]

\* C14 as stated: the determine phase of override_time_values_and_metadata
\* returns true exactly when the time values (of equal length) are not all
\* close to the reference's or a checked time attribute differs or is absent,
\* and so returns false when only the lengths differ; on arrays of equal
\* length its apply phase returns the reference's time values and time
\* attributes with the candidate's data.
C14_OverrideTimeSkipsValuesOfDifferentLength ==
    ProbedIs("override_time_values_and_metadata") =>
        LET c == artmip_input_xr
            r == original_input_xr
        IN  /\ probe.determined =
                   IF TimeValuesDeviate(c, r) \/ TimeAttributeDeviates(c, r)
                   THEN "True" ELSE "False"
            /\ Len(c.time) = Len(r.time) =>
                  /\ probe.applied.raised = NoError
                  /\ probe.applied.ds.time = r.time
                  /\ probe.applied.ds.time_attrs = r.time_attrs
                  /\ probe.applied.ds.data = c.data

\* attrs with the three checked attributes taken out
Unchecked(attrs) == [k \in DOMAIN attrs \ Range(check_atts) |-> attrs[k]]

\* C15 as stated: whenever the determine phase of
\* override_coordinate_metadata returns true, its apply phase completes and
\* returns a dataset whose long_name, units and standard_name on lat and on
\* lon are the reference's, with every other attribute, the coordinate
\* values, the time coordinate and the data as the candidate has them.
C15_OverrideCoordinateApplyCompletes ==
    (ProbedIs("override_coordinate_metadata") /\ probe.determined = "True") =>
        LET c == artmip_input_xr
            r == original_input_xr
        IN  /\ probe.applied.raised = NoError
            /\ \A i \in DOMAIN check_atts :
                  /\ probe.applied.ds.lat_attrs[check_atts[i]] = r.lat_attrs[check_atts[i]]
                  /\ probe.applied.ds.lon_attrs[check_atts[i]] = r.lon_attrs[check_atts[i]]
            /\ Unchecked(probe.applied.ds.lat_attrs) = Unchecked(c.lat_attrs)
            /\ Unchecked(probe.applied.ds.lon_attrs) = Unchecked(c.lon_attrs)
            /\ probe.applied.ds.lat = c.lat
            /\ probe.applied.ds.lon = c.lon
            /\ probe.applied.ds.time = c.time
            /\ probe.applied.ds.time_attrs = c.time_attrs
            /\ probe.applied.ds.data = c.data

-----------------------------------------------------------------------------
(* Properties of what is written (Spec) *)

\* The options compress at the given level and suppress the default fill
\* value
CompressesAt(options, level) ==
    /\ {"zlib", "complevel", "_FillValue"} \subseteq DOMAIN options
    /\ options["zlib"] = TRUE
    /\ options["complevel"] = level
    /\ options["_FillValue"] = None

HasDtype(options, dtype) == "dtype" \in DOMAIN options /\ options["dtype"] = dtype

\* C16 as stated: the encoding of every written partition gives every
\* variable of the output, the AR tag included, compression at the configured
\* compression_level and no default fill value; it pins the AR tag to int8
\* and time, lat and lon to the dtypes of the reference.
C16_EncodingCompressesEveryVariableAtTheConfiguredLevel ==
    \A y \in DOMAIN disk.files :
        LET encoding == disk.files[y].encoding
        IN  /\ \A var \in VariablesOf(disk.files[y].ds) :
                  /\ var \in DOMAIN encoding
                  /\ CompressesAt(encoding[var], cfg.compression_level)
            /\ HasDtype(encoding["ar_binary_tag"], "int8")
            /\ \A var \in CoordNames :
                  HasDtype(encoding[var], original_input_xr.dtypes[var])

\* C17: in a run whose determine_corrections and apply_corrections completed,
\* the time units and calendar in the encoding of every written partition are
\* the loaded reference's, whatever corrections the plan held, and all
\* partitions are written with one and the same encoding.
C17_EncodingTakesTheReferenceTimeUnits ==
    (DetermineCompleted /\ hist.apply_completed) =>
        /\ \A y \in DOMAIN disk.files :
              /\ {"units", "calendar"} \subseteq DOMAIN original_input_xr.time_attrs
              /\ {"units", "calendar"} \subseteq DOMAIN disk.files[y].encoding["time"]
              /\ disk.files[y].encoding["time"]["units"] =
                     original_input_xr.time_attrs["units"]
              /\ disk.files[y].encoding["time"]["calendar"] =
                     original_input_xr.time_attrs["calendar"]
        /\ \A y1, y2 \in DOMAIN disk.files :
              disk.files[y1].encoding = disk.files[y2].encoding

\* Two year partitions written for a candidate that came with time units of
\* its own
C17_Witness ==
    /\ DetermineCompleted
    /\ hist.apply_completed
    /\ Cardinality(DOMAIN disk.files) >= 2
    /\ HasFiles(files.artmip)
    /\ "units" \in DOMAIN AsStored(files.artmip).time_attrs
    /\ AsStored(files.artmip).time_attrs["units"] # original_input_xr.time_attrs["units"]
    /\ \A y \in DOMAIN disk.files :
          disk.files[y].encoding["time"]["units"] = original_input_xr.time_attrs["units"]

-----------------------------------------------------------------------------
(* Properties of loading (Spec) *)

\* The dataset as its files hold it, with every entry of the override map set
\* on it; as its files hold it when no map was given
LoadedAsConfigured(loaded, from_files, metadata_dict) ==
    IF metadata_dict = None THEN loaded = from_files
    ELSE /\ \A var \in DOMAIN metadata_dict : \A att \in DOMAIN metadata_dict[var] :
               /\ att \in DOMAIN AttrsOf(loaded, var)
               /\ AttrsOf(loaded, var)[att] = metadata_dict[var][att]
         /\ \A var \in CoordNames : \A att \in DOMAIN AttrsOf(from_files, var) :
               (var \notin DOMAIN metadata_dict \/ att \notin DOMAIN metadata_dict[var]) =>
                   /\ att \in DOMAIN AttrsOf(loaded, var)
                   /\ AttrsOf(loaded, var)[att] = AttrsOf(from_files, var)[att]
         /\ loaded.lon = from_files.lon
         /\ loaded.time = from_files.time
         /\ loaded.data = from_files.data

\* C18 as stated: a load whose files exist succeeds with or without an
\* override map; without a map the dataset has its attributes as read, with a
\* map every (variable, attribute, value) entry of it is set on the dataset.
C18_LoadAppliesAnOptionalOverrideMap ==
    /\ (LastStep = "load_artmip_input_files" /\ HasFiles(files.artmip)) =>
          /\ raised = NoError
          /\ LoadedAsConfigured(artmip_input_xr, AsStored(files.artmip),
                                cfg.artmip_metadata_dict)
    /\ (LastStep = "load_original_input_files" /\ HasFiles(files.original)) =>
          /\ raised = NoError
          /\ LoadedAsConfigured(original_input_xr, AsStored(files.original),
                                cfg.metadata_dict)

-----------------------------------------------------------------------------
(* Properties of the plan (Spec) *)

\* The last determine_corrections completed and kept no correction
PlanIsEmpty == DetermineCompleted /\ corrections = <<>>

\* C19 as stated: when every determine phase returned false, so that the plan
\* is empty, apply_corrections completes with the loaded candidate as
\* self.output_xr, and write_dataset then persists it with an empty
\* provenance string.
C19_EmptyPlanPassesTheCandidateThrough ==
    /\ (PlanIsEmpty /\ LastStep = "apply_corrections") =>
          /\ raised = NoError
          /\ output_xr = artmip_input_xr
    /\ (PlanIsEmpty /\ LastStep = "write_dataset") =>
          /\ raised = NoError
          /\ disk.files # <<>>
          /\ \A y \in DOMAIN disk.files :
                disk.files[y].ds.attrs["quality_control_operations"] = <<>>

\* The position of a correction in the plan, 0 when it is not in it
PlanPosition(name) ==
    IF ODHas(corrections, name)
    THEN CHOOSE i \in DOMAIN corrections : corrections[i].key = name
    ELSE 0

\* The two longitude arrays differ while both are in one convention (both
\* with a negative longitude, or both without)
DifferInOneConvention(c, r) ==
    /\ Len(c.lon) = Len(r.lon)
    /\ c.lon # r.lon
    /\ (MinOf(c.lon) >= 0) = (MinOf(r.lon) >= 0)

\* C20 as stated: a completed plan holds rotate_longitudes only after
\* swap_lon_convention; and when the loaded longitudes differ while both are
\* in one convention, determine_corrections ends at its first correction,
\* swap_lon_convention, with ConventionMismatch.
C20_RotateOnlyAfterSwap ==
    /\ DetermineCompleted =>
          (ODHas(corrections, "rotate_longitudes") =>
              /\ ODHas(corrections, "swap_lon_convention")
              /\ PlanPosition("swap_lon_convention") < PlanPosition("rotate_longitudes"))
    /\ (LastStep = "determine_corrections"
           /\ artmip_input_xr # None /\ original_input_xr # None
           /\ DifferInOneConvention(artmip_input_xr, original_input_xr)) =>
          /\ raised = "ConventionMismatch"
          /\ Len(hist.determine_log) = 1

=============================================================================
